---- MODULE Spec2Model ----
(***************************************************************************)
(* SupaFlow: a streaming client for text/event-stream responses.          *)
(* The model follows the SupaFlow class: its frame parser, its connection *)
(* life cycle (connect / close / reconnect, retry policy, heartbeat) and  *)
(* its dispatcher (filter, handlers, bounded history, batch buffer).      *)
(*                                                                         *)
(* Text is a sequence of one-character strings.                           *)
(***************************************************************************)
EXTENDS Naturals, Integers, Sequences, FiniteSets, TLC

VARIABLES
    text,           \* parser harness: the whole event-stream text to be fed
    rest,           \* parser harness: the part of text not yet fed
    out,            \* parser harness: records returned so far, concatenated
    messageBuffer,  \* SupaFlow.messageBuffer: carry-over of the last partial line
    lastEventId,    \* SupaFlow.lastEventId: NoId or the last id value parsed
    options,        \* SupaFlow.options, fixed at construction
    retryCount,     \* SupaFlow.retryCount
    buffer,         \* SupaFlow.buffer: the history
    controller,     \* SupaFlow.controller: Null or the id of an AbortController
    heartbeatInterval, \* SupaFlow.heartbeatInterval: Null or the id of an interval
    stale,          \* Date.now() - lastMessageTime > heartbeat timeout
    eventHandlers,  \* SupaFlow.eventHandlers: event name -> handlers, insertion order
    connectionState, \* SupaFlow.connectionState
    batchBuffer,    \* SupaFlow.batchBuffer
    batchInterval,  \* SupaFlow.batchInterval is set (the batch timer runs)
    attempts,       \* the connect() invocations so far, one record each
    aborted,        \* the AbortControllers whose abort() was called
    heartbeats,     \* the heartbeat intervals that are running
    reconnectTimers, \* the attempts whose setTimeout(reconnect) is pending
    serverChunks,   \* environment: the chunks the server may send
    serverBudget,   \* environment: how many more chunks the server sends
    notified,       \* the states passed to options.onStateChange, in order
    emitted,        \* the calls emit(event, data), in order
    delivered,      \* the handler invocations, in order
    inserted,       \* the entries pushed on the history since it was last cleared
    closed          \* the caller's last call of connect()/close() was close()

parserVars == <<text, rest, out>>

clientVars == <<options, retryCount, buffer, controller, heartbeatInterval, stale,
                eventHandlers, connectionState, batchBuffer, batchInterval, attempts,
                aborted, heartbeats, reconnectTimers, serverChunks, serverBudget, notified,
                emitted, delivered, inserted, closed>>

vars == <<text, rest, out, messageBuffer, lastEventId, options, retryCount, buffer,
          controller, heartbeatInterval, stale, eventHandlers, connectionState,
          batchBuffer, batchInterval, attempts, aborted, heartbeats, reconnectTimers,
          serverChunks, serverBudget, notified, emitted, delivered, inserted, closed>>

(***************************************************************************)
(* Characters and string helpers                                           *)
(***************************************************************************)
LF == "\n"
CR == "\r"
SP == " "
TAB == "\t"
COLON == ":"

Digits == <<"0", "1", "2", "3", "4", "5", "6", "7", "8", "9">>

IsDigit(c) == \E i \in 1..10 : Digits[i] = c

DigitVal(c) == (CHOOSE i \in 1..10 : Digits[i] = c) - 1

\* The characters String.prototype.trim removes (those the model's texts hold).
IsSpace(c) == c \in {SP, TAB, LF, CR}

\* s.slice(from) for a 0-based index from.
SliceFrom(s, from) == SubSeq(s, from + 1, Len(s))

\* s.slice(0, to) for a 0-based index to.
SliceTo(s, to) == SubSeq(s, 1, to)

\* s.indexOf(c): the 0-based index of the first c, or -1.
IndexOf(s, c) ==
    IF \E i \in 1..Len(s) : s[i] = c
    THEN (CHOOSE i \in 1..Len(s) : s[i] = c /\ \A j \in 1..(i - 1) : s[j] # c) - 1
    ELSE -1

\* s.trim()
Trim(s) ==
    LET keep == {i \in 1..Len(s) : ~IsSpace(s[i])}
    IN  IF keep = {} THEN <<>>
        ELSE LET lo == CHOOSE i \in keep : \A j \in keep : i <= j
                 hi == CHOOSE i \in keep : \A j \in keep : j <= i
             IN  SubSeq(s, lo, hi)

\* The line under construction closed by a "\n": the regular expression
\* /\r?\n/ takes a "\r" right before the "\n" into the separator.
CloseLine(cur) ==
    IF Len(cur) > 0 /\ cur[Len(cur)] = CR THEN SubSeq(cur, 1, Len(cur) - 1) ELSE cur

RECURSIVE SplitFrom(_, _, _, _)
SplitFrom(s, i, cur, acc) ==
    IF i > Len(s) THEN Append(acc, cur)
    ELSE IF s[i] = LF THEN SplitFrom(s, i + 1, <<>>, Append(acc, CloseLine(cur)))
    ELSE SplitFrom(s, i + 1, Append(cur, s[i]), acc)

\* s.split(/\r?\n/): always at least one element, the last one the text after
\* the last line break.
SplitLines(s) == SplitFrom(s, 1, <<>>, <<>>)

\* The complete lines of a text, in order: lines.pop() takes the last element
\* of the split away.
LinesOf(t) == LET all == SplitLines(t) IN SubSeq(all, 1, Len(all) - 1)

\* parseInt(value, 10): leading white space, an optional sign, then the
\* longest run of digits; NaN when there is no digit.
NaN == [nan |-> TRUE]

RECURSIVE DigitRun(_, _, _)
DigitRun(s, i, acc) ==
    IF i <= Len(s) /\ IsDigit(s[i]) THEN DigitRun(s, i + 1, acc * 10 + DigitVal(s[i]))
    ELSE acc

ParseInt(value) ==
    LET v == Trim(value)
        signed == Len(v) > 0 /\ v[1] \in {"-", "+"}
        body == IF signed THEN SliceFrom(v, 1) ELSE v
        mag == DigitRun(body, 1, 0)
    IN  IF Len(body) = 0 \/ ~IsDigit(body[1]) THEN NaN
        ELSE [num |-> IF signed /\ v[1] = "-" THEN 0 - mag ELSE mag]

(***************************************************************************)
(* Frame parser                                                            *)
(***************************************************************************)
NoId == [none |-> TRUE]

\* let message: Partial<EventMessage> = {}
EmptyMessage == [k \in {} |-> <<>>]

HasKey(m, k) == k \in DOMAIN m

SetKey(m, k, v) == (k :> v) @@ m

F_id == <<"i", "d">>
F_event == <<"e", "v", "e", "n", "t">>
F_data == <<"d", "a", "t", "a">>
F_retry == <<"r", "e", "t", "r", "y">>

\* case 'data': message.data ? message.data + '\n' + value : value
\* (an absent and an empty data are both falsy)
AppendData(m, value) ==
    IF HasKey(m, "data") /\ m["data"] # <<>>
    THEN SetKey(m, "data", m["data"] \o <<LF>> \o value)
    ELSE SetKey(m, "data", value)

\* One non-empty line folded into the record under construction; st is
\* [message, messages, lastEventId].
ParseField(st, line) ==
    LET colonIndex == IndexOf(line, COLON)
        field == Trim(SliceTo(line, colonIndex))
        value == Trim(SliceFrom(line, colonIndex + 1))
        retry == ParseInt(value)
    IN  IF colonIndex = -1 THEN st
        ELSE IF field = F_id
             THEN [st EXCEPT !.message = SetKey(@, "id", value), !.lastEventId = [id |-> value]]
        ELSE IF field = F_event
             THEN [st EXCEPT !.message = SetKey(@, "event", value)]
        ELSE IF field = F_data
             THEN [st EXCEPT !.message = AppendData(@, value)]
        ELSE IF field = F_retry /\ retry # NaN
             THEN [st EXCEPT !.message = SetKey(@, "retry", retry.num)]
        ELSE st

\* The loop body with unshift for push: a finished record is put in front of
\* those returned so far.
M_ParseLine_Unshift(st, line) ==
    IF line = <<>>
    THEN IF DOMAIN st.message # {}
         THEN [st EXCEPT !.messages = <<st.message>> \o @, !.message = EmptyMessage]
         ELSE st
    ELSE ParseField(st, line)

\* The body of `for (const line of lines)`.
ParseLine(st, line) ==
    IF line = <<>>
    THEN IF DOMAIN st.message # {}
         THEN [st EXCEPT !.messages = Append(@, st.message), !.message = EmptyMessage]
         ELSE st
    ELSE ParseField(st, line)

RECURSIVE ParseLines(_, _, _)
ParseLines(lines, i, st) ==
    IF i > Len(lines) THEN st
    ELSE ParseLines(lines, i + 1, ParseLine(st, lines[i]))

\* SupaFlow.parseEventStream(chunk) on the carry-over mb and last id lid:
\* the records returned, the new carry-over and the new last id.  The record
\* under construction is a local of the call: it starts empty and what it
\* holds when the lines run out is dropped.
parseEventStream(mb, lid, chunk) ==
    LET all == SplitLines(mb \o chunk)
        lines == LinesOf(mb \o chunk)
        st == ParseLines(lines, 1,
                         [message |-> EmptyMessage, messages |-> <<>>, lastEventId |-> lid])
    IN  [messages |-> st.messages,
         messageBuffer |-> all[Len(all)],
         lastEventId |-> st.lastEventId]

(***************************************************************************)
(* Options and construction                                                *)
(***************************************************************************)
Null == 0

DefaultInitialRetryDelay == 1000
DefaultMaxRetryDelay == 30000
DefaultBatchSize == 10
DefaultBufferSize == 1000

N_message == <<"m", "e", "s", "s", "a", "g", "e">>
N_batch == <<"b", "a", "t", "c", "h">>
N_e == <<"e">>

\* The event names the caller subscribes to, and the handlers it owns.
EventNames == {N_message, N_e, N_batch}

HandlerIds == {"h1", "h2"}

\* The options object after the constructor merged the caller's values over
\* the defaults.  include, exclude and transformers are sequences, empty when
\* not configured; batchSize and bufferSize are numbers (0 is falsy).
OptionsOf(autoReconnect, maxRetries, heartbeatEnabled, bufferSize, batchEnabled, batchSize, include, exclude, transformers) ==
    [autoReconnect |-> autoReconnect,
     initialRetryDelay |-> DefaultInitialRetryDelay,
     maxRetryDelay |-> DefaultMaxRetryDelay,
     maxRetries |-> maxRetries,
     heartbeatEnabled |-> heartbeatEnabled,
     bufferSize |-> bufferSize,
     batchEnabled |-> batchEnabled,
     batchSize |-> batchSize,
     include |-> include,
     exclude |-> exclude,
     transformers |-> transformers]

DefaultMaxRetries == 10

\* The options of `new SupaFlow(url)`.
DefaultOptions ==
    OptionsOf(TRUE, DefaultMaxRetries, TRUE, DefaultBufferSize, FALSE, DefaultBatchSize,
              <<>>, <<>>, <<>>)

\* The state a constructor call leaves, for the options o.
Constructed(o) ==
    /\ options = o
    /\ retryCount = 0
    /\ buffer = <<>>
    /\ controller = Null
    /\ heartbeatInterval = Null
    /\ stale = FALSE
    /\ lastEventId = NoId
    /\ messageBuffer = <<>>
    /\ eventHandlers = [n \in EventNames |-> <<>>]
    /\ connectionState = "DISCONNECTED"
    /\ batchBuffer = <<>>
    /\ batchInterval = o.batchEnabled
    /\ attempts = <<>>
    /\ aborted = {}
    /\ heartbeats = {}
    /\ reconnectTimers = {}
    /\ notified = <<>>
    /\ emitted = <<>>
    /\ delivered = <<>>
    /\ inserted = <<>>
    /\ closed = FALSE

(***************************************************************************)
(* Dispatcher, batch aggregator and history                                *)
(***************************************************************************)
Undefined == [undefined |-> TRUE]

\* A JSON integer: an optional "-", then "0" or a digit run without a leading
\* zero.  (The data values of the model hold no ".", "e", quote or bracket, so
\* no other JSON value can be written.)
IsJsonInt(s) ==
    LET body == IF Len(s) > 0 /\ s[1] = "-" THEN SliceFrom(s, 1) ELSE s
    IN  /\ Len(body) > 0
        /\ \A i \in 1..Len(body) : IsDigit(body[i])
        /\ (Len(body) > 1 => body[1] # "0")

JsonIntValue(s) ==
    IF s[1] = "-" THEN 0 - DigitRun(SliceFrom(s, 1), 1, 0) ELSE DigitRun(s, 1, 0)

\* try { parsedData = JSON.parse(message.data) } catch { parsedData = message.data }
\* JSON.parse skips surrounding white space; a record without data has
\* message.data undefined, which JSON.parse rejects.
ParsedData(message) ==
    IF ~HasKey(message, "data") THEN Undefined
    ELSE IF IsJsonInt(Trim(message["data"])) THEN [num |-> JsonIntValue(Trim(message["data"]))]
    ELSE [str |-> message["data"]]

\* message.event || 'message'
EventNameOf(message) ==
    IF HasKey(message, "event") /\ message["event"] # <<>> THEN message["event"]
    ELSE N_message

Contains(seq, x) == \E i \in 1..Len(seq) : seq[i] = x

\* shouldProcessEvent with the two tests in the wrong order: a configured
\* exclude list decides before the include list is looked at.
M_shouldProcessEvent_ExcludeFirst(o, eventName) ==
    IF Len(o.exclude) > 0 THEN ~Contains(o.exclude, eventName)
    ELSE IF Len(o.include) > 0 THEN Contains(o.include, eventName)
    ELSE TRUE

\* SupaFlow.shouldProcessEvent
shouldProcessEvent(o, eventName) ==
    IF Len(o.include) > 0 THEN Contains(o.include, eventName)
    ELSE IF Len(o.exclude) > 0 THEN ~Contains(o.exclude, eventName)
    ELSE TRUE

\* One transformer applied inside try/catch: "tag" wraps its argument,
\* "throws" throws, and the value it received is passed on.
ApplyTransformer(t, data) == IF t = "throws" THEN data ELSE [tagged |-> data]

RECURSIVE ReduceTransformers(_, _, _)
ReduceTransformers(ts, i, data) ==
    IF i > Len(ts) THEN data
    ELSE ReduceTransformers(ts, i + 1, ApplyTransformer(ts[i], data))

\* SupaFlow.transformData
transformData(o, data) == ReduceTransformers(o.transformers, 1, data)

\* this.eventHandlers.get(event).  The registry maps every name to its
\* handlers in insertion order; a name never subscribed to and a name whose
\* set is empty both have no handler to invoke.
HandlersOf(hs, event) == IF event \in DOMAIN hs THEN hs[event] ELSE <<>>

\* The handlers of the caller that throw when invoked.
ThrowingHandlers == {"h2"}

\* forEach without the try/catch: the first handler that throws ends the
\* iteration.
RECURSIVE M_forEachHandler_NoCatch(_, _, _, _, _)
M_forEachHandler_NoCatch(handlers, i, event, data, calls) ==
    IF i > Len(handlers) THEN calls
    ELSE LET called == Append(calls, [handler |-> handlers[i], event |-> event, data |-> data])
         IN  IF handlers[i] \in ThrowingHandlers THEN called
             ELSE M_forEachHandler_NoCatch(handlers, i + 1, event, data, called)

\* handlers.forEach(handler => { try { handler(data) } catch { log } }):
\* every handler is invoked, in insertion order; a handler that throws ends
\* its own invocation only.
RECURSIVE forEachHandler(_, _, _, _, _)
forEachHandler(handlers, i, event, data, calls) ==
    IF i > Len(handlers) THEN calls
    ELSE forEachHandler(handlers, i + 1, event, data,
                        Append(calls, [handler |-> handlers[i], event |-> event, data |-> data]))

\* SupaFlow.emit on the dispatch state d (the fields emit and its callers
\* write): the call is logged, then each handler of the name is invoked once,
\* in insertion order, when the filter lets the name pass.
emit(o, hs, d, event, data) ==
    LET logged == [d EXCEPT !.emitted = Append(@, [event |-> event, data |-> data])]
        handlers == HandlersOf(hs, event)
    IN  IF ~shouldProcessEvent(o, event) THEN logged
        ELSE [logged EXCEPT !.delivered =
                 forEachHandler(handlers, 1, event, transformData(o, data), @)]

\* const { size = 10 } = this.options.batchConfig (size is configured in the
\* model, so the default does not apply)
processBatchSize(o) == o.batchSize

\* processBatch with the batch cut one short: size items leave the buffer,
\* size - 1 are emitted.
RECURSIVE M_processBatch_ShortSlice(_, _, _)
M_processBatch_ShortSlice(o, hs, d) ==
    LET size == processBatchSize(o)
    IN  IF Len(d.batchBuffer) >= size
        THEN M_processBatch_ShortSlice(o, hs,
                 emit(o, hs, [d EXCEPT !.batchBuffer = SubSeq(@, size + 1, Len(@))],
                      N_batch, [batch |-> SubSeq(d.batchBuffer, 1, size - 1)]))
        ELSE d

\* SupaFlow.processBatch: while the batch buffer holds size items or more,
\* splice the first size off and emit them.  (size >= 1: with size 0 the loop
\* of the code does not end.)
RECURSIVE processBatch(_, _, _)
processBatch(o, hs, d) ==
    LET size == processBatchSize(o)
    IN  IF Len(d.batchBuffer) >= size
        THEN processBatch(o, hs,
                 emit(o, hs, [d EXCEPT !.batchBuffer = SubSeq(@, size + 1, Len(@))],
                      N_batch, [batch |-> SubSeq(d.batchBuffer, 1, size)]))
        ELSE d

\* this.options.batchConfig.size || 10
BatchThreshold(o) == IF o.batchSize = 0 THEN DefaultBatchSize ELSE o.batchSize

\* this.options.bufferSize || 1000
HistoryCapacity(o) == IF o.bufferSize = 0 THEN DefaultBufferSize ELSE o.bufferSize

\* The batch step with > for >=: a buffer that has just reached the size is
\* left alone.
M_BatchStep_StrictThreshold(o, hs, d, parsedData) ==
    IF ~o.batchEnabled THEN d
    ELSE LET pushed == [d EXCEPT !.batchBuffer = Append(@, parsedData)]
         IN  IF Len(pushed.batchBuffer) > BatchThreshold(o)
             THEN processBatch(o, hs, pushed)
             ELSE pushed

\* if (this.options.batchConfig?.enabled) { push; if (length >= size) processBatch() }
BatchStep(o, hs, d, parsedData) ==
    IF ~o.batchEnabled THEN d
    ELSE LET pushed == [d EXCEPT !.batchBuffer = Append(@, parsedData)]
         IN  IF Len(pushed.batchBuffer) >= BatchThreshold(o)
             THEN processBatch(o, hs, pushed)
             ELSE pushed

\* this.buffer.push(entry); if (this.buffer.length > capacity) this.buffer.shift()
HistoryStep(o, d, entry) ==
    LET pushed == Append(d.buffer, entry)
    IN  [d EXCEPT !.buffer = IF Len(pushed) > HistoryCapacity(o) THEN Tail(pushed) ELSE pushed,
                  !.inserted = Append(@, entry)]

\* The body of `for (const message of messages)` in connect(); rc is the
\* retry count, stored in the entry's metadata.
processMessage(o, hs, rc, d, message) ==
    LET parsedData == ParsedData(message)
        batched == BatchStep(o, hs, d, parsedData)
        sent == emit(o, hs, batched, EventNameOf(message), parsedData)
        eventId == IF HasKey(message, "id") THEN [id |-> message["id"]] ELSE NoId
    IN  HistoryStep(o, sent, [data |-> parsedData, eventId |-> eventId, retryCount |-> rc])

RECURSIVE processMessages(_, _, _, _, _, _)
processMessages(o, hs, rc, d, messages, i) ==
    IF i > Len(messages) THEN d
    ELSE processMessages(o, hs, rc, processMessage(o, hs, rc, d, messages[i]), messages, i + 1)

\* The fields the dispatcher, the batch aggregator and the history write.
DispatchState ==
    [batchBuffer |-> batchBuffer, buffer |-> buffer, emitted |-> emitted,
     delivered |-> delivered, inserted |-> inserted]

SetDispatchState(d) ==
    /\ batchBuffer' = d.batchBuffer
    /\ buffer' = d.buffer
    /\ emitted' = d.emitted
    /\ delivered' = d.delivered
    /\ inserted' = d.inserted

dispatchVars == <<batchBuffer, buffer, emitted, delivered, inserted>>

(***************************************************************************)
(* Connection life cycle                                                   *)
(***************************************************************************)
MaxAttempts == 2
MaxNotified == 5

configVars == <<options, serverChunks>>

fixedVars == <<configVars, serverBudget>>

Min(a, b) == IF a <= b THEN a ELSE b

\* SupaFlow.calculateRetryDelay, for the retry count rc
calculateRetryDelay(o, rc) == Min(o.initialRetryDelay * (2 ^ rc), o.maxRetryDelay)

\* A connect() invocation that has reached `await fetch(...)`.  by tells who
\* called it: the caller ("user"), a reconnect timer or the heartbeat.
\* The header test dropped: no request carries the header.
M_LastEventIdHeader_NeverSent(lid) == NoId

\* header is the Last-Event-ID request header (NoId: not sent).
\* if (this.lastEventId) headers.set('Last-Event-ID', this.lastEventId):
\* null and the empty string are both falsy.
LastEventIdHeader(lid) == IF lid # NoId /\ lid.id # <<>> THEN lid ELSE NoId

NewAttempt(by) ==
    [pc |-> "fetch", by |-> by, header |-> LastEventIdHeader(lastEventId), accepted |-> FALSE,
     cause |-> "none", result |-> "pending", delay |-> 0]

InFlight(a) == a \in 1..Len(attempts) /\ attempts[a].pc \in {"fetch", "read"}

\* connect() up to its first await: a new AbortController replaces the current one
\* (which is not aborted) and the request is issued.  The attempt and its
\* controller share an id.
ConnectStart(by) ==
    /\ Len(attempts) < MaxAttempts
    /\ attempts' = Append(attempts, NewAttempt(by))
    /\ controller' = Len(attempts) + 1

\* What close() does besides setState: abort and drop the current controller,
\* clearHeartbeat(), clear the batch interval.
CloseEffects ==
    /\ aborted' = IF controller # Null THEN aborted \cup {controller} ELSE aborted
    /\ heartbeats' = heartbeats \ {heartbeatInterval}
    /\ heartbeatInterval' = Null
    /\ batchInterval' = FALSE

\* The caller calls connect().
Connect ==
    /\ ConnectStart("user")
    /\ connectionState' = "CONNECTING"
    /\ notified' = Append(notified, "CONNECTING")
    /\ closed' = FALSE
    /\ UNCHANGED <<parserVars, fixedVars, dispatchVars, messageBuffer, lastEventId,
                   retryCount, aborted, heartbeatInterval, heartbeats, stale,
                   eventHandlers, batchInterval, reconnectTimers>>

\* The caller calls close().
Close ==
    /\ Len(notified) < MaxNotified
    /\ connectionState' = "DISCONNECTED"
    /\ notified' = Append(notified, "DISCONNECTED")
    /\ CloseEffects
    /\ controller' = Null
    /\ closed' = TRUE
    /\ UNCHANGED <<parserVars, fixedVars, dispatchVars, messageBuffer, lastEventId,
                   retryCount, stale, eventHandlers, attempts, reconnectTimers>>

\* SupaFlow.reconnect: close(), then connect() up to its first await.
reconnect(by) ==
    /\ ConnectStart(by)
    /\ CloseEffects
    /\ connectionState' = "CONNECTING"
    /\ notified' = notified \o <<"DISCONNECTED", "CONNECTING">>
    /\ UNCHANGED <<parserVars, fixedVars, dispatchVars, messageBuffer, lastEventId,
                   retryCount, stale, eventHandlers, closed>>

\* A pending setTimeout(() => this.reconnect(), delay) fires.
ReconnectFire ==
    \E t \in reconnectTimers :
        /\ reconnect("timer")
        /\ reconnectTimers' = reconnectTimers \ {t}

\* Time passes without a record: the gap since lastMessageTime exceeds the
\* heartbeat timeout.  (Only a heartbeat tick reads the gap, so it is tracked
\* while a heartbeat interval runs.)
TimePasses ==
    /\ heartbeats # {}
    /\ ~stale
    /\ stale' = TRUE
    /\ UNCHANGED <<parserVars, fixedVars, dispatchVars, messageBuffer, lastEventId,
                   retryCount, controller, aborted, heartbeatInterval, heartbeats,
                   eventHandlers, connectionState, notified, batchInterval, attempts,
                   reconnectTimers, closed>>

\* A running heartbeat interval ticks and finds the timeout exceeded (a tick
\* that does not changes nothing).
HeartbeatTick ==
    \E h \in heartbeats :
        /\ stale
        /\ reconnect("heartbeat")
        /\ UNCHANGED reconnectTimers

\* The attempt a ends: its promise settles with result, after scheduling a
\* reconnect with the given delay when delay > 0.
Settle(a, cause, result, delay) ==
    /\ attempts' = [attempts EXCEPT ![a] =
                       [@ EXCEPT !.pc = "done", !.cause = cause, !.result = result,
                                 !.delay = delay]]
    /\ reconnectTimers' = IF delay > 0 THEN reconnectTimers \cup {a} ELSE reconnectTimers

\* The catch block of connect() for an error that is no SupaFlowError.
CatchBlock(a, cause) ==
    /\ connectionState' = "ERROR"
    /\ notified' = Append(notified, "ERROR")
    /\ IF retryCount >= options.maxRetries
       THEN /\ Settle(a, cause, "MAX_RETRIES_EXCEEDED", 0)
            /\ retryCount' = retryCount
       ELSE /\ retryCount' = retryCount + 1
            /\ IF options.autoReconnect
               THEN Settle(a, cause, "absorbed", calculateRetryDelay(options, retryCount + 1))
               ELSE Settle(a, cause, "UNKNOWN_ERROR", 0)
    /\ UNCHANGED <<parserVars, fixedVars, dispatchVars, messageBuffer, lastEventId,
                   controller, aborted, heartbeatInterval, heartbeats, stale,
                   eventHandlers, batchInterval, closed>>

\* The catch block of connect() for a SupaFlowError thrown in the try block:
\* it is thrown again.
Rethrow(a, cause, code) ==
    /\ connectionState' = "ERROR"
    /\ notified' = Append(notified, "ERROR")
    /\ Settle(a, cause, code, 0)
    /\ UNCHANGED <<parserVars, fixedVars, dispatchVars, messageBuffer, lastEventId,
                   retryCount, controller, aborted, heartbeatInterval, heartbeats, stale,
                   eventHandlers, batchInterval, closed>>

Awaiting(a, pc) == a \in 1..Len(attempts) /\ attempts[a].pc = pc /\ a \notin aborted

\* fetch rejects: the transport failed.
FetchReject == \E a \in 1..Len(attempts) : Awaiting(a, "fetch") /\ CatchBlock(a, "transport")

\* fetch resolves with a response that is not ok.
FetchStatus ==
    \E a \in 1..Len(attempts) :
        Awaiting(a, "fetch") /\ Rethrow(a, "status", "CONNECTION_ERROR")

\* fetch resolves with an ok response without body.
FetchNullBody ==
    \E a \in 1..Len(attempts) :
        Awaiting(a, "fetch") /\ Rethrow(a, "nullBody", "INVALID_RESPONSE")

\* fetch resolves with an ok response with a body: retryCount = 0,
\* handleHeartbeat() (a new interval, the previous one is not cleared), and the
\* read loop awaits its first chunk.
FetchOk ==
    \E a \in 1..Len(attempts) :
        /\ Awaiting(a, "fetch")
        /\ retryCount' = 0
        /\ heartbeats' = IF options.heartbeatEnabled THEN heartbeats \cup {a} ELSE heartbeats
        /\ heartbeatInterval' = IF options.heartbeatEnabled THEN a ELSE heartbeatInterval
        /\ attempts' = [attempts EXCEPT ![a] = [@ EXCEPT !.pc = "read", !.accepted = TRUE]]
        /\ UNCHANGED <<parserVars, fixedVars, dispatchVars, messageBuffer, lastEventId,
                       controller, aborted, stale, eventHandlers, connectionState,
                       notified, batchInterval, reconnectTimers, closed>>

\* reader.read() of the attempt a resolves with the chunk: it is parsed and
\* every record returned is processed.
ReadChunkOf(a, chunk) ==
    LET r == parseEventStream(messageBuffer, lastEventId, chunk)
    IN  /\ Awaiting(a, "read")
        /\ serverBudget > 0
        /\ serverBudget' = serverBudget - 1
        /\ messageBuffer' = r.messageBuffer
        /\ lastEventId' = r.lastEventId
        /\ stale' = IF Len(r.messages) > 0 THEN FALSE ELSE stale
        /\ SetDispatchState(processMessages(options, eventHandlers, retryCount,
                                            DispatchState, r.messages, 1))
        /\ UNCHANGED <<parserVars, configVars, retryCount, controller, aborted,
                       heartbeatInterval, heartbeats, eventHandlers, connectionState,
                       notified, batchInterval, attempts, reconnectTimers, closed>>

\* reader.read() resolves with one of the chunks the server may send.
ReadChunk ==
    \E a \in 1..Len(attempts), chunk \in serverChunks : ReadChunkOf(a, chunk)

\* reader.read() resolves with done: with autoReconnect a reconnect is
\* scheduled; then setState(CONNECTED) and connect() resolves.
ReadEnd ==
    \E a \in 1..Len(attempts) :
        /\ Awaiting(a, "read")
        /\ Settle(a, "end", "completed",
                  IF options.autoReconnect THEN calculateRetryDelay(options, retryCount) ELSE 0)
        /\ connectionState' = "CONNECTED"
        /\ notified' = Append(notified, "CONNECTED")
        /\ UNCHANGED <<parserVars, fixedVars, dispatchVars, messageBuffer, lastEventId,
                       retryCount, controller, aborted, heartbeatInterval, heartbeats,
                       stale, eventHandlers, batchInterval, closed>>

\* reader.read() rejects: the stream failed.
ReadFail == \E a \in 1..Len(attempts) : Awaiting(a, "read") /\ CatchBlock(a, "read")

\* The pending fetch or read of an attempt whose controller was aborted
\* rejects with an AbortError.
Unwind ==
    \E a \in aborted : InFlight(a) /\ CatchBlock(a, "abort")

(***************************************************************************)
(* Subscription, manual flush, batch timer                                 *)
(***************************************************************************)
MaxHandlers == 2

RegisteredCount == Cardinality({p \in EventNames \X HandlerIds :
                                   Contains(HandlersOf(eventHandlers, p[1]), p[2])})

RECURSIVE Without(_, _)
Without(seq, x) ==
    IF seq = <<>> THEN <<>>
    ELSE IF Head(seq) = x THEN Without(Tail(seq), x)
    ELSE <<Head(seq)>> \o Without(Tail(seq), x)

lifeVars == <<retryCount, controller, aborted, heartbeatInterval, heartbeats, stale,
              connectionState, notified, batchInterval, attempts, reconnectTimers, closed>>

\* SupaFlow.on: the handler joins the set of the name (a set keeps insertion
\* order and holds a handler once).
On ==
    \E name \in EventNames, h \in HandlerIds :
        /\ RegisteredCount < MaxHandlers
        /\ ~Contains(HandlersOf(eventHandlers, name), h)
        /\ eventHandlers' = [eventHandlers EXCEPT ![name] = Append(@, h)]
        /\ UNCHANGED <<parserVars, fixedVars, dispatchVars, messageBuffer, lastEventId,
                       lifeVars>>

\* SupaFlow.off
Off ==
    \E name \in EventNames, h \in HandlerIds :
        /\ Contains(eventHandlers[name], h)
        /\ eventHandlers' = [eventHandlers EXCEPT ![name] = Without(@, h)]
        /\ UNCHANGED <<parserVars, fixedVars, dispatchVars, messageBuffer, lastEventId,
                       lifeVars>>

\* flushBatchBuffer with the bug of draining through processBatch: only full
\* batches leave the buffer.
M_flushBatchBuffer_FullBatchesOnly ==
    /\ SetDispatchState(processBatch(options, eventHandlers, DispatchState))
    /\ UNCHANGED <<parserVars, fixedVars, messageBuffer, lastEventId, eventHandlers,
                   lifeVars>>

\* SupaFlow.flushBatchBuffer: a batch buffer that holds something is copied,
\* emptied and emitted as one "batch" event; on an empty one the call does
\* nothing.
flushBatchBuffer ==
    /\ IF Len(batchBuffer) > 0
       THEN SetDispatchState(emit(options, eventHandlers,
                                  [DispatchState EXCEPT !.batchBuffer = <<>>],
                                  N_batch, [batch |-> batchBuffer]))
       ELSE UNCHANGED dispatchVars
    /\ UNCHANGED <<parserVars, fixedVars, messageBuffer, lastEventId, eventHandlers,
                   lifeVars>>

\* SupaFlow.clearBuffer
clearBuffer ==
    /\ buffer # <<>>
    /\ buffer' = <<>>
    /\ inserted' = <<>>
    /\ UNCHANGED <<parserVars, fixedVars, batchBuffer, emitted, delivered,
                   messageBuffer, lastEventId, eventHandlers, lifeVars>>

\* The batch interval of initBatchProcessing ticks.
BatchTick ==
    /\ batchInterval
    /\ Len(batchBuffer) > 0
    /\ SetDispatchState(processBatch(options, eventHandlers, DispatchState))
    /\ UNCHANGED <<parserVars, fixedVars, messageBuffer, lastEventId, eventHandlers,
                   lifeVars>>

(***************************************************************************)
(* Specifications                                                          *)
(***************************************************************************)
K_a == <<"d", "a", "t", "a", ":", "a", LF, LF>>
K_e == <<"e", "v", "e", "n", "t", ":", "e", LF, "d", "a", "t", "a", ":", "7", LF, LF>>

MaxRetriesBound == 1
LifeChunks == 2
DispatchChunks == 2
HistoryChunks == 3
IsolationChunks == 2
FlushChunks == 3
MaxFlushSize == 3
RetryHintChunks == 2
OrderChunks == 2
ResumeChunks == 2
MaxBufferSize == 2
MaxBatchSize == 2

NoParserInput ==
    /\ text = <<>>
    /\ rest = <<>>
    /\ out = <<>>

\* Life cycle: a client without handlers, with or without auto-reconnect and
\* heartbeat, against a server that may reject, answer badly, accept, send
\* records, end the stream or fail.
Init ==
    /\ NoParserInput
    /\ serverChunks = {K_a}
    /\ serverBudget = LifeChunks
    /\ \E ar \in BOOLEAN, hb \in BOOLEAN, mr \in 0..MaxRetriesBound :
           Constructed(OptionsOf(ar, mr, hb, MaxBufferSize, FALSE, DefaultBatchSize,
                                 <<>>, <<>>, <<>>))

Next ==
    \/ Connect
    \/ Close
    \/ ReconnectFire
    \/ TimePasses
    \/ HeartbeatTick
    \/ FetchReject
    \/ FetchStatus
    \/ FetchNullBody
    \/ FetchOk
    \/ ReadChunk
    \/ ReadEnd
    \/ ReadFail
    \/ Unwind

Spec == Init /\ [][Next]_vars

FilterChoices ==
    {[include |-> <<>>, exclude |-> <<>>],
     [include |-> <<N_e>>, exclude |-> <<>>],
     [include |-> <<>>, exclude |-> <<N_batch>>],
     [include |-> <<N_message, N_batch>>, exclude |-> <<N_message>>]}

\* batchConfig: absent, or enabled with a size of 1..MaxBatchSize.
BatchChoices ==
    {[enabled |-> FALSE, size |-> DefaultBatchSize]}
        \cup {[enabled |-> TRUE, size |-> z] : z \in 1..MaxBatchSize}

\* Dispatch: a client without auto-reconnect and heartbeat, with any batch
\* configuration and filter, whose caller subscribes, unsubscribes and
\* flushes while records arrive.
DispatchInit ==
    /\ NoParserInput
    /\ serverChunks = {K_a, K_e}
    /\ serverBudget = DispatchChunks
    /\ \E b \in BatchChoices, f \in FilterChoices :
           Constructed(OptionsOf(FALSE, DefaultMaxRetries, FALSE, MaxBufferSize, b.enabled,
                                 b.size, f.include, f.exclude, <<>>))

DispatchNext ==
    \/ Connect
    \/ FetchOk
    \/ ReadChunk
    \/ On
    \/ Off
    \/ flushBatchBuffer
    \/ BatchTick

SpecDispatch == DispatchInit /\ [][DispatchNext]_vars

\* transformers: absent, or a chain of transformers that tag their argument
\* or throw.
TransformerChoices == {<<>>, <<"tag">>, <<"throws", "tag">>, <<"tag", "throws", "tag">>}

\* Isolation: a client with any transformer chain, without filter, whose
\* caller subscribes handlers, one of which throws, while records arrive.
IsolationInit ==
    /\ NoParserInput
    /\ serverChunks = {K_a, K_e}
    /\ serverBudget = IsolationChunks
    /\ \E ts \in TransformerChoices :
           Constructed(OptionsOf(FALSE, DefaultMaxRetries, FALSE, MaxBufferSize, TRUE, 1,
                                 <<>>, <<>>, ts))

IsolationNext ==
    \/ Connect
    \/ FetchOk
    \/ ReadChunk
    \/ ReadEnd
    \/ On

SpecIsolation == IsolationInit /\ [][IsolationNext]_vars

\* History: a client without auto-reconnect, batching and filter, with any
\* history capacity, whose caller reads and clears the history while records
\* arrive.
HistoryInit ==
    /\ NoParserInput
    /\ serverChunks = {K_a, K_e}
    /\ serverBudget = HistoryChunks
    /\ \E bs \in 0..MaxBufferSize :
           Constructed(OptionsOf(FALSE, DefaultMaxRetries, FALSE, bs, FALSE, DefaultBatchSize,
                                 <<>>, <<>>, <<>>))

HistoryNext ==
    \/ Connect
    \/ Close
    \/ FetchOk
    \/ ReadChunk
    \/ ReadEnd
    \/ ReadFail
    \/ clearBuffer

SpecHistory == HistoryInit /\ [][HistoryNext]_vars

\* Flush: a client with batches of MaxFlushSize and no filter, whose caller
\* subscribes and flushes while records of two kinds arrive one by one, so
\* that a flush finds one or several items pending.
FlushInit ==
    /\ NoParserInput
    /\ serverChunks = {K_a, K_e}
    /\ serverBudget = FlushChunks
    /\ Constructed(OptionsOf(FALSE, DefaultMaxRetries, FALSE, MaxBufferSize, TRUE,
                             MaxFlushSize, <<>>, <<>>, <<>>))

FlushNext ==
    \/ Connect
    \/ FetchOk
    \/ ReadChunk
    \/ On
    \/ flushBatchBuffer
    \/ BatchTick

SpecFlush == FlushInit /\ [][FlushNext]_vars

K_retry == <<"r", "e", "t", "r", "y", ":", "7", LF, LF>>

\* Retry hint: a client with batches of two whose caller subscribes while
\* the server sends data records and records that hold a retry field only.
RetryHintInit ==
    /\ NoParserInput
    /\ serverChunks = {K_a, K_retry}
    /\ serverBudget = RetryHintChunks
    /\ Constructed(OptionsOf(FALSE, DefaultMaxRetries, FALSE, MaxBufferSize, TRUE, 2,
                             <<>>, <<>>, <<>>))

RetryHintNext ==
    \/ Connect
    \/ FetchOk
    \/ ReadChunk
    \/ ReadEnd
    \/ On

SpecRetryHint == RetryHintInit /\ [][RetryHintNext]_vars

\* The record "data:<n>" and its closing blank line, for a digit n.
NumberedRecord(n) == <<"d", "a", "t", "a", ":", Digits[n + 1], LF, LF>>

\* The i-th chunk of the numbering server: the records 2i-1 and 2i.
NumberedChunk(i) == NumberedRecord(2 * i - 1) \o NumberedRecord(2 * i)

\* reader.read() resolves with the next chunk of the numbering server,
\* whichever attempt is reading.
ReadNumbered ==
    \E a \in 1..Len(attempts) : ReadChunkOf(a, NumberedChunk(OrderChunks - serverBudget + 1))

\* Order: a client with auto-reconnect, heartbeat and batches of three, whose
\* caller subscribes and connects while the server numbers its
\* records in the order it sends them, over any number of connections.
OrderInit ==
    /\ NoParserInput
    /\ serverChunks = {}
    /\ serverBudget = OrderChunks
    /\ Constructed(OptionsOf(TRUE, MaxRetriesBound, TRUE, MaxBufferSize, TRUE, 3,
                             <<>>, <<>>, <<>>))

OrderNext ==
    \/ Connect
    \/ ReconnectFire
    \/ TimePasses
    \/ HeartbeatTick
    \/ FetchOk
    \/ ReadNumbered
    \/ ReadEnd
    \/ ReadFail
    \/ Unwind
    \/ On
    \/ BatchTick

SpecOrder == OrderInit /\ [][OrderNext]_vars

K_id1 == <<"i", "d", ":", "1", LF, "d", "a", "t", "a", ":", "a", LF, LF>>
K_idEmpty == <<"i", "d", ":", LF, "d", "a", "t", "a", ":", "a", LF, LF>>

\* Resumption: the life cycle of Spec against a server whose records carry
\* an id, an empty id or none.
ResumeInit ==
    /\ NoParserInput
    /\ serverChunks = {K_a, K_id1, K_idEmpty}
    /\ serverBudget = ResumeChunks
    /\ \E ar \in BOOLEAN :
           Constructed(OptionsOf(ar, MaxRetriesBound, FALSE, MaxBufferSize, FALSE,
                                 DefaultBatchSize, <<>>, <<>>, <<>>))

ResumeNext ==
    \/ Connect
    \/ Close
    \/ ReconnectFire
    \/ FetchReject
    \/ FetchOk
    \/ ReadChunk
    \/ ReadEnd
    \/ ReadFail
    \/ Unwind

SpecResume == ResumeInit /\ [][ResumeNext]_vars

(***************************************************************************)
(* Parser specification: a text is fed to parseEventStream in chunks       *)
(***************************************************************************)
MaxLines == 3

L_dataA == <<"d", "a", "t", "a", ":", "a">>
L_dataEmpty == <<"d", "a", "t", "a", ":">>
L_dataB == <<"d", "a", "t", "a", ":", " ", "b">>
L_id == <<"i", "d", ":", "1">>
L_event == <<"e", "v", "e", "n", "t", ":", "e">>
L_retry == <<"r", "e", "t", "r", "y", ":", "7">>
L_noColon == <<"x">>
L_blank == <<>>

LineSet == {L_dataA, L_dataEmpty, L_dataB, L_id, L_event, L_retry, L_noColon, L_blank}

Terminators == {<<LF>>, <<CR, LF>>}

RECURSIVE TextsOf(_)
TextsOf(n) ==
    IF n = 0 THEN {<<>>}
    ELSE LET shorter == TextsOf(n - 1)
             longest == {t \in shorter : Len(LinesOf(t)) = n - 1}
         IN  shorter \cup {t \o l \o e : t \in longest, l \in LineSet, e \in Terminators}

\* Every text of at most MaxLines terminated lines.
Texts == TextsOf(MaxLines)

ParseInit ==
    /\ text \in Texts
    /\ rest = text
    /\ out = <<>>
    /\ serverChunks = {}
    /\ serverBudget = 0
    /\ Constructed(DefaultOptions)

\* One call parseEventStream(chunk), chunk the next k characters of the text.
FeedChunk(k) ==
    LET r == parseEventStream(messageBuffer, lastEventId, SliceTo(rest, k))
    IN  /\ out' = out \o r.messages
        /\ messageBuffer' = r.messageBuffer
        /\ lastEventId' = r.lastEventId
        /\ rest' = SliceFrom(rest, k)
        /\ text' = text
        /\ UNCHANGED clientVars

\* The text arrives in chunks cut at arbitrary positions.
Feed == \E k \in 1..Len(rest) : FeedChunk(k)

\* The text arrives as one chunk.
FeedWhole == rest # <<>> /\ FeedChunk(Len(rest))

ParseNext == Feed

SpecParse == ParseInit /\ [][ParseNext]_vars

WholeNext == FeedWhole

SpecParseWhole == ParseInit /\ [][WholeNext]_vars

(***************************************************************************)
(* Parser claims                                                           *)
(***************************************************************************)
\* The records of the whole text fed in a single call on a fresh parser.
WholeParse(t) == parseEventStream(<<>>, NoId, t).messages

\* C1: whatever the split of a text into chunks, the records returned by the
\* successive calls, concatenated, are the records a single call on the whole
\* text returns.
C1_ChunkingEquivalence == rest = <<>> => out = WholeParse(text)

IsDataLine(line) ==
    LET c == IndexOf(line, COLON) IN c # -1 /\ Trim(SliceTo(line, c)) = F_data

DataValueOf(line) == Trim(SliceFrom(line, IndexOf(line, COLON) + 1))

\* A text that is one record: non-blank lines, at least one of them a data
\* line, closed by one blank line.
IsOneRecord(t) ==
    LET ls == LinesOf(t)
    IN  /\ Len(ls) >= 2
        /\ ls[Len(ls)] = <<>>
        /\ \A i \in 1..(Len(ls) - 1) : ls[i] # <<>>
        /\ \E i \in 1..(Len(ls) - 1) : IsDataLine(ls[i])

RECURSIVE JoinDataValues(_, _, _, _)
JoinDataValues(ls, i, seen, acc) ==
    IF i > Len(ls) THEN acc
    ELSE IF ~IsDataLine(ls[i]) THEN JoinDataValues(ls, i + 1, seen, acc)
    ELSE JoinDataValues(ls, i + 1, TRUE,
                        IF seen THEN acc \o <<LF>> \o DataValueOf(ls[i]) ELSE DataValueOf(ls[i]))

\* The values of the data lines of a text joined with one "\n" between
\* consecutive values.
JoinedData(t) == JoinDataValues(LinesOf(t), 1, FALSE, <<>>)

\* C9: the data field of a record is the values of its data lines joined with
\* a single newline, in arrival order, empty values included.
C9_DataJoin ==
    (rest = <<>> /\ IsOneRecord(text))
        => (Len(out) = 1 /\ HasKey(out[1], "data") /\ out[1]["data"] = JoinedData(text))

(***************************************************************************)
(* Life-cycle claims                                                       *)
(***************************************************************************)
Attempts == 1..Len(attempts)

\* The attempt a ended without an accepted response: the transport rejected
\* the request, or the response was not ok or had no body.
FailedToConnect(a) ==
    attempts[a].pc = "done" /\ attempts[a].cause \in {"transport", "status", "nullBody"}

\* The number of attempts right before a that failed to connect, one after
\* the other.
RECURSIVE FailuresBefore(_)
FailuresBefore(a) ==
    IF a > 1 /\ FailedToConnect(a - 1) THEN 1 + FailuresBefore(a - 1) ELSE 0

\* C2: with auto-reconnect, a failed connection attempt that follows
\* maxRetries consecutive failed ones raises MAX_RETRIES_EXCEEDED and
\* schedules no reconnect; every earlier failed attempt is absorbed and
\* schedules one reconnect.
C2_RetryCeiling ==
    options.autoReconnect =>
        \A a \in Attempts :
            FailedToConnect(a) =>
                IF FailuresBefore(a) >= options.maxRetries
                THEN attempts[a].result = "MAX_RETRIES_EXCEEDED" /\ attempts[a].delay = 0
                ELSE attempts[a].result = "absorbed" /\ attempts[a].delay > 0

\* C3: from the return of close() until the caller's next connect(), the
\* state stays DISCONNECTED and no connection attempt is started (a reconnect
\* timer or heartbeat that fires starts one).
C3_ClosedStaysClosed ==
    [][(closed /\ closed') =>
          (connectionState' = "DISCONNECTED" /\ Len(attempts') = Len(attempts))]_vars

\* The client is as a close() call leaves it.
JustClosed ==
    /\ closed
    /\ connectionState = "DISCONNECTED"
    /\ controller = Null
    /\ heartbeatInterval = Null
    /\ ~batchInterval

\* C4: a close() on a client that a close() has just left changes no client
\* state and notifies the onStateChange observer of nothing.
C4_SecondCloseNoOp ==
    [][(JustClosed /\ Close) => (notified' = notified /\ connectionState' = connectionState)]_vars

\* The attempt a failed and scheduled a reconnect.
FailedAndScheduled(a) ==
    /\ attempts[a].pc = "done"
    /\ attempts[a].cause \in {"transport", "read"}
    /\ attempts[a].delay > 0

\* C8: on a fresh client the reconnect scheduled after the n-th consecutive
\* failed attempt (n = 1, 2, ...) waits min(initial * 2^(n-1), max): 1000,
\* 2000, 4000, ..., never more than max.
C8_BackoffSequence ==
    \A a \in Attempts :
        (FailedAndScheduled(a) /\ \A b \in 1..(a - 1) : FailedAndScheduled(b)) =>
            /\ attempts[a].delay = Min(options.initialRetryDelay * (2 ^ (a - 1)),
                                       options.maxRetryDelay)
            /\ attempts[a].delay <= options.maxRetryDelay

\* The attempts that await their fetch or a chunk and were not cancelled.
ActiveAttempts == {a \in Attempts : InFlight(a) /\ a \notin aborted}

\* C10: at every moment at most one connection attempt of the client is
\* active (a connect() cancels the attempt in flight before it starts its own).
C10_SingleActiveAttempt == Cardinality(ActiveAttempts) <= 1

(***************************************************************************)
(* History, flush and filter claims                                        *)
(***************************************************************************)
\* The last n elements of a sequence.
LastN(seq, n) == SubSeq(seq, Len(seq) - n + 1, Len(seq))

\* C5: after every processed record the history holds at most bufferSize
\* entries, and they are the newest bufferSize of those inserted, in insertion
\* order (the oldest is the one evicted).
C5_HistoryWithinConfigured ==
    /\ Len(buffer) <= options.bufferSize
    /\ buffer = LastN(inserted, Min(Len(inserted), options.bufferSize))

\* What a flush of the pending items is to do: one more emit call, of a
\* "batch" event whose payload is the pending items in insertion order, and an
\* empty batch buffer.
FlushedAll ==
    /\ emitted' = Append(emitted, [event |-> N_batch, data |-> [batch |-> batchBuffer]])
    /\ batchBuffer' = <<>>

\* C6: flushBatchBuffer() on a non-empty batch buffer below the batch size
\* makes exactly one emit call, of a "batch" event whose payload is all the
\* pending items in insertion order, and leaves the batch buffer empty; on an
\* empty batch buffer it emits nothing and changes nothing.
C6_FlushEmitsOneBatch ==
    IF batchBuffer = <<>>
    THEN /\ ENABLED (flushBatchBuffer /\ UNCHANGED vars)
         /\ ~ENABLED (flushBatchBuffer /\ ~UNCHANGED vars)
    ELSE /\ Len(batchBuffer) < options.batchSize
         /\ ENABLED (flushBatchBuffer /\ FlushedAll)
         /\ ~ENABLED (flushBatchBuffer /\ ~FlushedAll)

\* A flush has just emitted two different pending items in the order they
\* arrived, as one batch smaller than the batch size, and the buffer is empty.
C6_Witness ==
    /\ batchBuffer = <<>>
    /\ Len(emitted) > 1
    /\ emitted[Len(emitted)].event = N_batch
    /\ Len(emitted[Len(emitted)].data.batch) = 2
    /\ Len(emitted[Len(emitted)].data.batch) < options.batchSize
    /\ emitted[Len(emitted)].data.batch[1] # emitted[Len(emitted)].data.batch[2]
    /\ emitted[Len(emitted)].data.batch
           = <<inserted[Len(inserted) - 1].data, inserted[Len(inserted)].data>>

\* The filter rule of the claim.
PassesFilter(name) ==
    IF options.include # <<>> THEN \E i \in 1..Len(options.include) : options.include[i] = name
    ELSE IF options.exclude # <<>> THEN \A i \in 1..Len(options.exclude) : options.exclude[i] # name
    ELSE TRUE

\* The handler invocations the emit calls es are to cause: for each call
\* whose name passes the filter, one per handler registered for the name.
RECURSIVE ExpectedInvocations(_, _)
ExpectedInvocations(es, i) ==
    IF i > Len(es) THEN <<>>
    ELSE LET hs == HandlersOf(eventHandlers, es[i].event)
             here == IF PassesFilter(es[i].event)
                     THEN [k \in 1..Len(hs) |-> [handler |-> hs[k], event |-> es[i].event]]
                     ELSE <<>>
         IN  here \o ExpectedInvocations(es, i + 1)

InvocationsOf(ds) == [k \in 1..Len(ds) |-> [handler |-> ds[k].handler, event |-> ds[k].event]]

\* C7: in every step, the handlers invoked are those of the events emitted
\* whose name passes the filter (include list if configured, else exclude
\* list, else everything), each registered handler once; no handler is invoked
\* for a name the filter rejects.
C7_FilterDecidesDelivery ==
    [][InvocationsOf(SubSeq(delivered', Len(delivered) + 1, Len(delivered')))
          = ExpectedInvocations(SubSeq(emitted', Len(emitted) + 1, Len(emitted')), 1)]_vars

\* An event was delivered, and an event whose name the filter rejects was
\* emitted while a handler is registered for that name.
C7_Witness ==
    /\ delivered # <<>>
    /\ \E i \in 1..Len(emitted) :
           /\ ~PassesFilter(emitted[i].event)
           /\ HandlersOf(eventHandlers, emitted[i].event) # <<>>
    /\ \A i \in 1..Len(delivered) : PassesFilter(delivered[i].event)

(***************************************************************************)
(* State machine, retry and heartbeat claims                               *)
(***************************************************************************)
\* C11: while the read loop of the client's latest attempt awaits chunks
\* (the response was accepted, and neither a failure, the end of the stream
\* nor a close() has happened), the connection state is CONNECTED.
C11_ConnectedWhileReading ==
    (attempts # <<>> /\ Awaiting(Len(attempts), "read") /\ ~closed
        /\ \A b \in Attempts : b # Len(attempts) => attempts[b].pc = "done")
        => connectionState = "CONNECTED"

\* The states s1, s2, s3 were notified in that order (other notifications
\* may lie between them).
NotifiedInOrder(s1, s2, s3) ==
    \E i, j, k \in 1..Len(notified) :
        i < j /\ j < k /\ notified[i] = s1 /\ notified[j] = s2 /\ notified[k] = s3

\* The attempt a failed, was absorbed, and the reconnect it scheduled ran.
AbsorbedAndReconnected(a) ==
    /\ attempts[a].pc = "done"
    /\ attempts[a].cause \in {"transport", "read"}
    /\ attempts[a].result = "absorbed"
    /\ a \notin reconnectTimers

\* C12: once the reconnect scheduled by a failed, absorbed attempt has run,
\* the observer has been notified of ERROR, RECONNECTING and CONNECTING, in
\* that order.
C12_ReconnectingNotified ==
    (\E a \in Attempts : AbsorbedAndReconnected(a))
        => NotifiedInOrder("ERROR", "RECONNECTING", "CONNECTING")

\* C13: with auto-reconnect, every failed connection attempt (transport
\* rejection, non-ok status, null body) that does not exhaust the retry
\* budget is absorbed: nothing is raised to the caller and a delayed
\* reconnect is scheduled.
C13_FailuresAbsorbed ==
    options.autoReconnect =>
        \A a \in Attempts :
            (FailedToConnect(a) /\ attempts[a].result # "MAX_RETRIES_EXCEEDED")
                => (attempts[a].result = "absorbed" /\ attempts[a].delay > 0)

\* C16: the retry counter returns to zero only in a step that processes at
\* least one record.
C16_ResetOnlyOnRecord ==
    [][(retryCount > 0 /\ retryCount' = 0) => Len(inserted') > Len(inserted)]_vars

\* C17: at most one heartbeat interval runs, and none runs on a client that
\* close() has just left.
C17_SingleHeartbeat ==
    /\ Cardinality(heartbeats) <= 1
    /\ JustClosed => heartbeats = {}

\* C20: without auto-reconnect, every attempt ended by a transport rejection
\* or a read failure raised UNKNOWN_ERROR and scheduled no retry, and the
\* retry counter is never incremented.
C20_UnknownErrorWithoutRetry ==
    ~options.autoReconnect =>
        /\ retryCount = 0
        /\ \A a \in Attempts :
               (attempts[a].pc = "done" /\ attempts[a].cause \in {"transport", "read"})
                   => (attempts[a].result = "UNKNOWN_ERROR" /\ attempts[a].delay = 0)

(***************************************************************************)
(* Batch claims                                                            *)
(***************************************************************************)
\* The emit calls and the history insertions of the step.
NewEmitted == SubSeq(emitted', Len(emitted) + 1, Len(emitted'))

NewInserted == SubSeq(inserted', Len(inserted) + 1, Len(inserted'))

\* The payloads of the "batch" events among the emit calls es, one after the
\* other.
RECURSIVE BatchedItems(_, _)
BatchedItems(es, i) ==
    IF i > Len(es) THEN <<>>
    ELSE (IF es[i].event = N_batch THEN es[i].data.batch ELSE <<>>) \o BatchedItems(es, i + 1)

\* C19: with batching enabled and size s >= 1, in every step that processes
\* records (or is a tick of the batch timer) each "batch" event emitted holds
\* exactly s items, the items emitted followed by those left pending are the
\* items that were pending followed by the payloads received, in that order,
\* and fewer than s items are left pending.
C19_AutomaticBatches ==
    [][(options.batchEnabled /\ (ReadChunk \/ BatchTick)) =>
          /\ \A i \in 1..Len(NewEmitted) :
                 NewEmitted[i].event = N_batch
                     => Len(NewEmitted[i].data.batch) = options.batchSize
          /\ BatchedItems(NewEmitted, 1) \o batchBuffer'
                 = batchBuffer \o [k \in 1..Len(NewInserted) |-> NewInserted[k].data]
          /\ Len(batchBuffer') < options.batchSize]_vars

\* With size 2, the second record received completed a batch: a batch of two
\* different items was emitted and nothing is pending.
C19_Witness ==
    /\ options.batchEnabled
    /\ options.batchSize = 2
    /\ batchBuffer = <<>>
    /\ \E i \in 1..Len(emitted) :
           /\ emitted[i].event = N_batch
           /\ Len(emitted[i].data.batch) = 2
           /\ emitted[i].data.batch[1] # emitted[i].data.batch[2]

(***************************************************************************)
(* Isolation claim                                                         *)
(***************************************************************************)
\* The value a transformer chain is to hand on: each transformer that does
\* not throw tags the value it receives, one that throws is skipped.
RECURSIVE SkippingFailures(_, _)
SkippingFailures(ts, data) ==
    IF ts = <<>> THEN data
    ELSE SkippingFailures(Tail(ts), IF Head(ts) = "throws" THEN data ELSE [tagged |-> data])

\* One invocation per handler registered for the name of each emit call of
\* es, throwing or not, with the value the chain is to hand on.
RECURSIVE IsolatedInvocations(_, _)
IsolatedInvocations(es, i) ==
    IF i > Len(es) THEN <<>>
    ELSE LET hs == HandlersOf(eventHandlers, es[i].event)
         IN  [k \in 1..Len(hs) |->
                 [handler |-> hs[k], event |-> es[i].event,
                  data |-> SkippingFailures(options.transformers, es[i].data)]]
             \o IsolatedInvocations(es, i + 1)

\* C14: in every step, each handler registered for the name of an emitted
\* event is invoked exactly once, whether or not a handler before it threw,
\* with the value of the transformer chain in which a failing transformer is
\* skipped; and the step that delivers leaves the attempt reading (nothing
\* propagates to the read loop).
C14_FailuresIsolated ==
    [][/\ SubSeq(delivered', Len(delivered) + 1, Len(delivered'))
             = IsolatedInvocations(NewEmitted, 1)
       /\ ReadChunk => attempts' = attempts]_vars

\* A handler that throws was invoked and the handler registered after it
\* for the same name was invoked next, with a value that a chain with a
\* failing transformer produced.
C14_Witness ==
    /\ Contains(options.transformers, "throws")
    /\ \E i \in 1..(Len(delivered) - 1) :
           /\ delivered[i].handler \in ThrowingHandlers
           /\ delivered[i + 1].handler \notin ThrowingHandlers
           /\ delivered[i + 1].event = delivered[i].event
           /\ delivered[i].data = [tagged |-> [str |-> <<"a">>]]
    /\ \E a \in Attempts : attempts[a].pc = "read"

(***************************************************************************)
(* Resumption claim                                                        *)
(***************************************************************************)
\* The id of the last record received that carried one (NoId: none did).
\* Every chunk of the resumption server is a whole record, so this is the
\* most recently parsed id.
RECURSIVE LastSeenId(_)
LastSeenId(n) ==
    IF n = 0 THEN NoId
    ELSE IF inserted[n].eventId # NoId THEN inserted[n].eventId
    ELSE LastSeenId(n - 1)

\* The step starts a connection attempt.
AttemptStarts == Len(attempts') = Len(attempts) + 1

\* C18 as stated: every attempt made after an id was parsed carries that id
\* in its Last-Event-ID header, and an attempt made before carries none.
C18_HeaderCarriesLastId ==
    [][AttemptStarts => attempts'[Len(attempts')].header = LastSeenId(Len(inserted))]_vars

\* C18 (amended): every attempt made while the most recently parsed id is
\* not empty carries that id in its Last-Event-ID header; an attempt made
\* before any id was parsed, or after an empty id was parsed last, carries no
\* such header.  The id survives close() and reconnects.
C18_HeaderCarriesNonEmptyLastId ==
    [][AttemptStarts =>
          attempts'[Len(attempts')].header
              = (IF LastSeenId(Len(inserted)) \in {NoId, [id |-> <<>>]}
                 THEN NoId ELSE LastSeenId(Len(inserted)))]_vars

\* A reconnect made after a close() carried the id received on the attempt
\* before it.
C18_Witness ==
    /\ Len(attempts) = 2
    /\ attempts[1].header = NoId
    /\ attempts[2].by = "timer"
    /\ attempts[2].header = [id |-> <<"1">>]
    /\ "DISCONNECTED" \in {notified[i] : i \in 1..Len(notified)}

(***************************************************************************)
(* Ordering claim                                                          *)
(***************************************************************************)
\* The numbers of a sequence of payloads grow from each one to the next.
Ascending(payloads) ==
    \A i, j \in 1..Len(payloads) : i < j => payloads[i].num < payloads[j].num

\* The payloads of the elements of seq that satisfy Keep(_).
RECURSIVE PayloadsWhere(_, _, _)
PayloadsWhere(seq, Keep(_), i) ==
    IF i > Len(seq) THEN <<>>
    ELSE (IF Keep(seq[i]) THEN <<seq[i].data>> ELSE <<>>) \o PayloadsWhere(seq, Keep, i + 1)

IsRecordEvent(e) == e.event # N_batch

\* C15: the server numbers its records in the order it sends them; the
\* records are emitted, delivered to each handler, appended to the history
\* and put in batches in the order of their numbers, whatever connects,
\* closes, scheduled and heartbeat-forced reconnects happen in between.
C15_OrderPreserved ==
    /\ Ascending(PayloadsWhere(emitted, IsRecordEvent, 1))
    /\ \A h \in HandlerIds :
           LET ToH(d) == d.handler = h /\ d.event # N_batch
           IN  Ascending(PayloadsWhere(delivered, ToH, 1))
    /\ Ascending([k \in 1..Len(inserted) |-> inserted[k].data])
    /\ Ascending(BatchedItems(emitted, 1) \o batchBuffer)
    /\ \A i \in 1..Len(delivered) :
           delivered[i].event = N_batch => Ascending(delivered[i].data.batch)

\* All the records of the server were received, over two attempts of which
\* the second was forced by the heartbeat, and records and batches were
\* delivered to a handler.
C15_Witness ==
    /\ Len(attempts) = 2
    /\ attempts[2].by = "heartbeat"
    /\ Len(inserted) = 2 * OrderChunks
    /\ \E i, j \in 1..Len(delivered) :
           delivered[i].event = N_batch /\ delivered[j].event = N_message

(***************************************************************************)
(* Retry-hint claim                                                        *)
(***************************************************************************)
\* C21: a record that holds a retry field only is no deliverable event.  On
\* the retry-hint server every other record has data, so no emit call, no
\* handler invocation, no history entry and no batched item has an undefined
\* payload.
C21_RetryOnlyNotDelivered ==
    /\ \A i \in 1..Len(emitted) : emitted[i].event # N_batch => emitted[i].data # Undefined
    /\ \A i \in 1..Len(delivered) : delivered[i].data # Undefined
    /\ \A i \in 1..Len(inserted) : inserted[i].data # Undefined
    /\ \A i \in 1..Len(batchBuffer) : batchBuffer[i] # Undefined

(***************************************************************************)
(* Claims on reconnects the caller did not ask for, and on the ceiling     *)
(***************************************************************************)
\* Every connect() invocation so far has settled.
AllSettled == \A a \in Attempts : attempts[a].pc = "done"

\* C22: without auto-reconnect, once every connect() call has settled, a
\* connection attempt is started by the caller's connect() only.
C22_NoAttemptOfItsOwn ==
    [][(~options.autoReconnect /\ attempts # <<>> /\ AllSettled /\ AttemptStarts)
          => attempts'[Len(attempts')].by = "user"]_vars

\* The attempts so far are one connect() of the caller followed by the
\* reconnects scheduled one after the other, and each of them failed: the
\* request was rejected, or it was accepted and the read failed.
PersistentFailure ==
    /\ attempts # <<>>
    /\ attempts[1].by = "user"
    /\ \A a \in Attempts :
           /\ a > 1 => attempts[a].by = "timer"
           /\ attempts[a].pc = "done"
           /\ attempts[a].cause \in {"transport", "read"}

\* C23: with auto-reconnect, when more than maxRetries attempts in a row have
\* failed, the last of them raised MAX_RETRIES_EXCEEDED and no reconnect is
\* scheduled.
C23_CeilingUnderPersistentFailure ==
    (options.autoReconnect /\ PersistentFailure /\ Len(attempts) > options.maxRetries)
        => /\ attempts[Len(attempts)].result = "MAX_RETRIES_EXCEEDED"
           /\ reconnectTimers = {}

(***************************************************************************)
(* Batch conservation claim                                                *)
(***************************************************************************)
\* The payloads appended to the batch buffer so far: with batching enabled
\* every record processed is appended to it and to the history.
AppendedToBatch == [k \in 1..Len(inserted) |-> inserted[k].data]

\* Some handler was invoked with the "batch" event of the emit call e.
WasDelivered(e) ==
    \E j \in 1..Len(delivered) :
        delivered[j].event = N_batch /\ delivered[j].data = e.data

\* C24 as stated: each payload appended to the batch buffer is still in it
\* or went out in exactly one "batch" event, and every such event was
\* delivered to the handlers.
C24_BatchedNeverLost ==
    options.batchEnabled =>
        /\ BatchedItems(emitted, 1) \o batchBuffer = AppendedToBatch
        /\ \A i \in 1..Len(emitted) : emitted[i].event = N_batch => WasDelivered(emitted[i])

\* C24 (amended): each payload appended to the batch buffer is still in it
\* or was removed inside exactly one emit call of a "batch" event, in
\* insertion order; the handlers invoked for that call are those registered
\* for "batch" at the time of the call, and none when the filter rejects
\* "batch" (the payloads are then dropped).
C24_BatchedEmittedOnce ==
    options.batchEnabled =>
        /\ BatchedItems(emitted, 1) \o batchBuffer = AppendedToBatch
        /\ \A j \in 1..Len(delivered) :
               delivered[j].event = N_batch
                   => /\ PassesFilter(N_batch)
                      /\ \E i \in 1..Len(emitted) :
                             emitted[i].event = N_batch /\ emitted[i].data = delivered[j].data

\* Payloads left the batch buffer in a "batch" event that no handler
\* received, and others are pending.
C24_Witness ==
    /\ options.batchEnabled
    /\ batchBuffer # <<>>
    /\ \E i \in 1..Len(emitted) : emitted[i].event = N_batch /\ ~WasDelivered(emitted[i])
    /\ BatchedItems(emitted, 1) # <<>>

====
